---- MODULE Spec2Model ----
(***************************************************************************)
(* A model of mailru_im_command_bot.CommandBot: the argument binder        *)
(* (_gen_kwargs, _cast_arg) and the dispatch wrapper chain                 *)
(* (_access_log, integrator decorators, _command_args, _log_exception,     *)
(* _send_error_message).                                                   *)
(*                                                                         *)
(* Python strings are sequences of one-character strings, so that split,   *)
(* lower and the int parser are computed and not assumed.  The annotations *)
(* modelled are int, bool, str and the missing annotation; float, Enum and *)
(* CustomParam parameters are not part of the model.                       *)
(***************************************************************************)
EXTENDS Integers, Sequences, FiniteSets, TLC

VARIABLES
    params,     \* _gen_kwargs: the handler's parameter list
    msg_args,   \* _gen_kwargs: the message's tokens
    result,     \* _gen_kwargs: what the call produced (NotCalled before it)
    alert_to,   \* CommandBot.alert_to: the chats that receive alerts
    decorators, \* CommandBot.decorators: the integrator's decorators
    func,       \* the command handler registered under Path
    event,      \* the inbound event being dispatched (NoEvent when idle)
    pc,         \* where the registered callback stands for that event
    level,      \* how many integrator decorators the call is inside of
    exc,        \* the exception in flight (None when there is none)
    alert_i,    \* _send_error_message: index of the next alert recipient
    trace,      \* the logger, transport and handler calls made for the event
    paths,      \* CommandBot.paths: the command registry
    handlers,   \* bot.dispatcher: the handlers added to the transport
    last_call   \* the last registration call and what it raised

bindVars == <<params, msg_args, result>>
botVars == <<alert_to, decorators, func>>
regVars == <<paths, handlers, last_call>>
runVars == <<event, pc, level, exc, alert_i, trace>>
vars == <<params, msg_args, result, alert_to, decorators, func,
          event, pc, level, exc, alert_i, trace, paths, handlers, last_call>>

\* ---------------------------------------------------------------- bounds
MaxParams == 2
MaxArgs == 3
MaxAlerts == 2
MaxDecorators == 2
MaxCommands == 2
MaxHelp == 1

\* ------------------------------------------------------ values and strings
\* inspect.Parameter.empty: no default.
Empty == [kind |-> "empty"]
IntV(n) == [kind |-> "int", n |-> n]
BoolV(b) == [kind |-> "bool", b |-> b]
StrV(s) == [kind |-> "str", s |-> s]

Digits == {"0", "1", "2", "3", "4", "5", "6", "7", "8", "9"}

DigitVal(c) ==
    CASE c = "0" -> 0 [] c = "1" -> 1 [] c = "2" -> 2 [] c = "3" -> 3
      [] c = "4" -> 4 [] c = "5" -> 5 [] c = "6" -> 6 [] c = "7" -> 7
      [] c = "8" -> 8 [] c = "9" -> 9

\* str.lower, on the letters the tokens of the model are written with.
LowerChar(c) ==
    CASE c = "T" -> "t" [] c = "R" -> "r" [] c = "U" -> "u" [] c = "E" -> "e"
      [] c = "F" -> "f" [] c = "A" -> "a" [] c = "L" -> "l" [] c = "S" -> "s"
      [] OTHER -> c

Lower(s) == [i \in 1..Len(s) |-> LowerChar(s[i])]

\* The index of the first "=" of a token, 0 when it has none.
FirstEq(tok) ==
    IF \E i \in 1..Len(tok) : tok[i] = "="
    THEN CHOOSE i \in 1..Len(tok) :
            tok[i] = "=" /\ \A j \in 1..(i - 1) : tok[j] # "="
    ELSE 0

\* arg.split('=', 1)
SplitEq(tok) ==
    IF FirstEq(tok) = 0
    THEN <<tok>>
    ELSE <<SubSeq(tok, 1, FirstEq(tok) - 1),
           SubSeq(tok, FirstEq(tok) + 1, Len(tok))>>

\* int(arg) accepts an optional sign followed by decimal digits.
IsIntLiteral(s) ==
    LET body == IF Len(s) > 0 /\ s[1] \in {"+", "-"} THEN Tail(s) ELSE s
    IN  Len(body) > 0 /\ \A i \in 1..Len(body) : body[i] \in Digits

RECURSIVE DigitsVal(_)
DigitsVal(s) ==
    IF s = <<>> THEN 0
    ELSE 10 * DigitsVal(SubSeq(s, 1, Len(s) - 1)) + DigitVal(s[Len(s)])

ParseInt(s) ==
    IF s[1] = "-" THEN 0 - DigitsVal(Tail(s))
    ELSE IF s[1] = "+" THEN DigitsVal(Tail(s))
    ELSE DigitsVal(s)

\* ----------------------------------------------------------- exceptions
BadArg(msg, detail) == [type |-> "BadArg", msg |-> msg, detail |-> detail]

Ok(v) == [ok |-> TRUE, val |-> v]
Raise(e) == [ok |-> FALSE, exc |-> e]

\* ------------------------------------------------------------ _cast_arg
CastArg(param, arg) ==
    IF param.annotation = "bool"
    THEN IF Lower(arg) = <<"t", "r", "u", "e">> THEN Ok(BoolV(TRUE))
         ELSE IF Lower(arg) = <<"f", "a", "l", "s", "e">> THEN Ok(BoolV(FALSE))
         ELSE Raise(BadArg("can't cast param to", <<Lower(arg), param.annotation>>))
    ELSE IF param.annotation = "int"
    THEN IF IsIntLiteral(arg) THEN Ok(IntV(ParseInt(arg)))
         ELSE Raise(BadArg("can't cast param to", <<arg, param.annotation>>))
    ELSE Ok(StrV(arg))

\* ----------------------------------------------------------- _gen_kwargs
\* {**d1, **d2}
Merge(d1, d2) ==
    [k \in (DOMAIN d1) \cup (DOMAIN d2) |->
        IF k \in DOMAIN d2 THEN d2[k] ELSE d1[k]]

\* A variant that compares only the two ends of the list.
IsSortedEnds(s) == Len(s) < 2 \/ s[1] <= s[Len(s)]

\* sorted(single_or_pair) == single_or_pair
IsSorted(s) == \A i \in 1..(Len(s) - 1) : s[i] <= s[i + 1]

Names(ps) == {ps[i].name : i \in 1..Len(ps)}

ParamByName(ps, name) ==
    ps[CHOOSE i \in 1..Len(ps) : ps[i].name = name]

DefaultKwargs(ps) ==
    [name \in {ps[i].name : i \in {j \in 1..Len(ps) : ps[j].default # Empty}} |->
        ParamByName(ps, name).default]

\* A variant that stops after the first key-value token.
RECURSIVE KwargKwargsFirstOnly(_, _, _)
KwargKwargsFirstOnly(ps, splited_args, acc) ==
    IF splited_args = <<>> THEN Ok(acc)
    ELSE LET kv == Head(splited_args)
         IN  IF Len(kv) # 2 THEN KwargKwargsFirstOnly(ps, Tail(splited_args), acc)
             ELSE IF kv[1] \notin Names(ps)
             THEN Raise(BadArg("no argument with name", kv[1]))
             ELSE LET c == CastArg(ParamByName(ps, kv[1]), kv[2])
                  IN  IF ~c.ok THEN c ELSE Ok(Merge(acc, (kv[1] :> c.val)))

\* The dict comprehension over the key-value tokens, in token order: the
\* first unknown name or failed cast ends it, a later token with the same
\* key replaces the earlier one.
RECURSIVE KwargKwargs(_, _, _)
KwargKwargs(ps, splited_args, acc) ==
    IF splited_args = <<>> THEN Ok(acc)
    ELSE LET kv == Head(splited_args)
         IN  IF Len(kv) # 2 THEN KwargKwargs(ps, Tail(splited_args), acc)
             ELSE IF kv[1] \notin Names(ps)
             THEN Raise(BadArg("no argument with name", kv[1]))
             ELSE LET c == CastArg(ParamByName(ps, kv[1]), kv[2])
                  IN  IF ~c.ok THEN c
                      ELSE KwargKwargs(ps, Tail(splited_args),
                                       Merge(acc, (kv[1] :> c.val)))

\* msg_args[:single_or_pair.index(2)], msg_args when no 2 is in the list
PositionalArgs(args, single_or_pair) ==
    IF \E i \in 1..Len(single_or_pair) : single_or_pair[i] = 2
    THEN SubSeq(args, 1,
            (CHOOSE i \in 1..Len(single_or_pair) :
                /\ single_or_pair[i] = 2
                /\ \A j \in 1..(i - 1) : single_or_pair[j] # 2) - 1)
    ELSE args

\* The dict comprehension over zip(params, positional_args).
RECURSIVE PositionalKwargs(_, _, _)
PositionalKwargs(ps, positional_args, acc) ==
    IF ps = <<>> \/ positional_args = <<>> THEN Ok(acc)
    ELSE LET c == CastArg(Head(ps), Head(positional_args))
         IN  IF ~c.ok THEN c
             ELSE PositionalKwargs(Tail(ps), Tail(positional_args),
                                   Merge(acc, (Head(ps).name :> c.val)))

\* A variant that lets a positional token win over a named one.
MergeKwargsPositionalLast(default_kwargs, positional_kwargs, kwarg_kwargs) ==
    Merge(Merge(default_kwargs, kwarg_kwargs), positional_kwargs)

\* {**default_kwargs, **positional_kwargs, **kwarg_kwargs}
MergeKwargs(default_kwargs, positional_kwargs, kwarg_kwargs) ==
    Merge(Merge(default_kwargs, positional_kwargs), kwarg_kwargs)

\* A variant without the final check.
MissingParamsUnchecked(ps, kwargs) == {}

\* The indices of the parameters the final loop finds without a value.
MissingParams(ps, kwargs) ==
    {i \in 1..Len(ps) : ps[i].name \notin DOMAIN kwargs}

GenKwargs(ps, args) ==
    LET splited_args == [i \in 1..Len(args) |-> SplitEq(args[i])]
        single_or_pair == [i \in 1..Len(args) |-> Len(splited_args[i])]
    IN  IF ~IsSorted(single_or_pair)
        THEN Raise(BadArg("you can't use positional arguments after key-value arguments", <<>>))
        ELSE
        LET kwarg_kwargs == KwargKwargs(ps, splited_args, <<>>)
        IN  IF ~kwarg_kwargs.ok THEN kwarg_kwargs
            ELSE
            LET positional_kwargs ==
                    PositionalKwargs(ps, PositionalArgs(args, single_or_pair), <<>>)
            IN  IF ~positional_kwargs.ok THEN positional_kwargs
                ELSE
                LET kwargs == MergeKwargs(DefaultKwargs(ps), positional_kwargs.val,
                                          kwarg_kwargs.val)
                    missing == MissingParams(ps, kwargs)
                IN  IF missing # {}
                    THEN Raise(BadArg("no value for arg",
                            ps[CHOOSE i \in missing : \A j \in missing : i <= j].name))
                    ELSE Ok(kwargs)

\* ------------------------------------------------- inputs of the binder
\* The i-th declared parameter is named ParamNames[i]: names are unique
\* within a signature.
ParamNames == <<(<<"a">>), (<<"b">>), (<<"c">>), (<<"d">>)>>

\* Annotation and default of a parameter; a default is an instance of the
\* declared type (_check_args).
ParamKinds ==
    { [annotation |-> "int", default |-> Empty],
      [annotation |-> "int", default |-> IntV(7)],
      [annotation |-> "empty", default |-> StrV(<<"s">>)],
      [annotation |-> "bool", default |-> BoolV(TRUE)] }

Signatures ==
    UNION { { [i \in 1..n |-> [name |-> ParamNames[i],
                               annotation |-> ks[i].annotation,
                               default |-> ks[i].default]] :
                ks \in [1..n -> ParamKinds] } : n \in 0..MaxParams }

Tokens ==
    { <<"1">>, <<"2">>, <<"T", "r", "u", "e">>,
      <<"a", "=", "1">>, <<"a", "=", "2">>, <<"a", "=">>,
      <<"b", "=", "1">>, <<"b", "=", "T", "r", "u", "e">>,
      <<"c", "=", "1">> }

TokenLists == UNION { [1..n -> Tokens] : n \in 0..MaxArgs }

NotCalled == [ok |-> FALSE, exc |-> [type |-> "NotCalled"]]

\* ------------------------------------------------------ text and events
\* str.split(): the maximal runs of characters other than whitespace.
RECURSIVE SplitWs(_, _)
SplitWs(text, cur) ==
    IF text = <<>> THEN (IF cur = <<>> THEN <<>> ELSE <<cur>>)
    ELSE IF Head(text) = " "
    THEN (IF cur = <<>> THEN <<>> ELSE <<cur>>) \o SplitWs(Tail(text), <<>>)
    ELSE SplitWs(Tail(text), Append(cur, Head(text)))

Split(text) == SplitWs(text, <<>>)

None == [type |-> "None"]
NoEvent == [text |-> <<>>, from_chat |-> "", message_author |-> [userId |-> ""]]

\* _get_user
GetUser(ev) == ev.message_author.userId

\* f'[{self._get_user(event)}]@[{event.from_chat}]'
UserAndChat(ev) == [user |-> GetUser(ev), chat |-> ev.from_chat]

\* _parameters: the signature without the leading env parameter.
Parameters(f) == f.params

\* _gen_kwargs_from_msg
GenKwargsFromMsg(f, msg) ==
    LET splitted == SelectSeq(Split(msg), LAMBDA a : a # <<>>)
    IN  GenKwargs(Parameters(f), SubSeq(splitted, 2, Len(splitted)))

\* _format_function_help, as the data the block is rendered from.
FormatFunctionHelp(path, f) ==
    [fmt |-> "help", path |-> path, doc |-> f.doc, params |-> Parameters(f)]

\* A variant that takes the first token whatever it starts with.
AccessPathUnchecked(message) ==
    IF Len(Split(message)) > 0 THEN Split(message)[1] ELSE <<"{not a path}">>

\* _access_log: the path of the access lines.
AccessPath(message) ==
    IF Len(Split(message)) > 0 /\ Split(message)[1][1] = "/"
    THEN Split(message)[1]
    ELSE <<"{not a path}">>

\* f'[ACCESS] {user_and_chat} {path}'
AccessMsg(ev) ==
    [fmt |-> "[ACCESS] {user_and_chat} {path}",
     user_and_chat |-> UserAndChat(ev), path |-> AccessPath(ev.text)]

\* f'{access_msg} elapsed={time() - start_t:.3f}s'
AccessElapsedMsg(ev) ==
    [fmt |-> "{access_msg} elapsed={:.3f}s", access_msg |-> AccessMsg(ev)]

\* f'{e}\n{cls._format_function_help(path, handler)}'
BadArgText(e, path, f) ==
    [fmt |-> "{e}\n{help}", e |-> e, help |-> FormatFunctionHelp(path, f)]

\* A variant that sends a fixed acknowledgement instead of the return value.
ReplyTextFixed(s) == [fmt |-> "{}", s |-> <<"o", "k">>]

\* send(handler(env, **kwargs)): the handler's string itself.
ReplyText(s) == [fmt |-> "{}", s |-> s]

\* A variant that reports the failure to the chat.
ErrorTextLeaking(e) == [fmt |-> "some error occurred: {e}", e |-> e]

\* send('some error occurred')
ErrorText(e) == [fmt |-> "some error occurred"]

\* format_exc(): the exception being handled, with the exception it was
\* raised during.
FormatExc(e) == [fmt |-> "Traceback", e |-> e]

\* _format_error_message
FormatErrorMessage(user, message) ==
    [fmt |-> "ERROR: user={user}\n\n{message}", user |-> user, message |-> message]

\* The transport's send_text failing.
TransportError == [type |-> "TransportError", msg |-> "send_text failed"]

\* An exception raised while another was being handled.
During(e, context) == [type |-> e.type, msg |-> e.msg, context |-> context]

\* ---------------------------------------------------- effects of an event
LogInfo(line) == [op |-> "info", line |-> line]
LogError(user_and_chat, e) == [op |-> "error", user_and_chat |-> user_and_chat, e |-> e]
LogExceptionLine(e) ==
    [op |-> "exception", line |-> [fmt |-> "an error while reporting error: {e}", e |-> e]]
SendText(chat_id, text, ok) ==
    [op |-> "send", chat_id |-> chat_id, text |-> text, ok |-> ok]
Call(kwargs, out) == [op |-> "call", kwargs |-> kwargs, out |-> out]
Enter(d) == [op |-> "dec_enter", d |-> d]
Exit(d) == [op |-> "dec_exit", d |-> d]

\* --------------------------------------------- inputs of the dispatch chain
Chats == {"chat1", "chat2"}
Users == {"user1"}
Path == <<"c", "m", "d">>

AlertLists == UNION { [1..n -> Chats] : n \in 0..MaxAlerts }

DecoratorNames == <<"d1", "d2", "d3", "d4">>
DecoratorLists == { SubSeq(DecoratorNames, 1, n) : n \in 0..MaxDecorators }

\* The handlers registered: every signature of at most one parameter, with
\* a docstring.
Handlers ==
    { [params |-> sig, doc |-> "help"] :
        sig \in {g \in Signatures : Len(g) <= 1} }

\* What a handler body does with its arguments: return a string or raise.
HandlerOutcomes ==
    { Ok(<<"r", "1">>), Ok(<<"r", "2">>),
      Raise([type |-> "ValueError", msg |-> "secret"]),
      Raise(BadArg("raised in the handler", <<>>)) }

SlashCmd == <<"/">> \o Path

EventTexts ==
    { SlashCmd,
      SlashCmd \o <<" ", "1">>,
      SlashCmd \o <<" ", "T", "r", "u", "e">>,
      <<" ">> \o SlashCmd \o <<" ", " ", "a", "=", "2", " ">>,
      SlashCmd \o <<" ", "1", " ", "2">>,
      <<".">> \o Path \o <<" ", "1">>,
      <<>> }

Events ==
    { [text |-> t, from_chat |-> c, message_author |-> [userId |-> u]] :
        t \in EventTexts, c \in Chats, u \in Users }

\* ------------------------------------------------------- registration
ImproperlyConfigured(msg, param) ==
    [type |-> "ImproperlyConfigured", msg |-> msg, param |-> param]

\* issubclass() given something that is not a class, such as Optional[int]
\* or an annotation written as a string.
TypeError == [type |-> "TypeError", msg |-> "issubclass() arg 1 must be a class"]

\* The annotations that are classes.
Classes == {"int", "bool", "str", "Exception"}

\* issubclass(ann, (str, int, float, bool, Enum, CustomParam))
SupportedClasses == {"int", "bool", "str"}

\* isinstance(default, ann): a bool is an int.
IsInstance(v, ann) ==
    \/ ann = "int" /\ v.kind \in {"int", "bool"}
    \/ ann = "bool" /\ v.kind = "bool"
    \/ ann = "str" /\ v.kind = "str"

\* _check_args: the body of the loop, for one parameter.
CheckParam(p) ==
    IF p.annotation # "empty" /\ p.annotation \notin Classes
    THEN Raise(TypeError)
    ELSE IF p.annotation # "empty" /\ p.annotation \notin SupportedClasses
    THEN Raise(ImproperlyConfigured("param type is not supported", p.name))
    ELSE LET ann == IF p.annotation = "empty" THEN "str" ELSE p.annotation
         IN  IF p.default # Empty /\ ~IsInstance(p.default, ann)
             THEN Raise(ImproperlyConfigured("param default is not instance of", p.name))
             ELSE Ok(TRUE)

\* _check_args: the first parameter that fails ends the loop.
RECURSIVE CheckParams(_)
CheckParams(ps) ==
    IF ps = <<>> THEN Ok(TRUE)
    ELSE IF ~CheckParam(Head(ps)).ok THEN CheckParam(Head(ps))
    ELSE CheckParams(Tail(ps))

CheckArgs(f) == CheckParams(Parameters(f))

\* A variant in which the first decorator of the list ends up outermost.
RECURSIVE WrapFirstOutermost(_, _)
WrapFirstOutermost(ds, inner) ==
    IF ds = <<>> THEN inner
    ELSE [wrapper |-> Head(ds), inner |-> WrapFirstOutermost(Tail(ds), inner)]

\* _decorate, the for loop: the decorators in list order, each wraps what
\* was built before it.
RECURSIVE Wrap(_, _)
Wrap(ds, inner) ==
    IF ds = <<>> THEN inner
    ELSE Wrap(Tail(ds), [wrapper |-> Head(ds), inner |-> inner])

\* _decorate
Decorate(path, f) ==
    [wrapper |-> "access_log",
     inner |-> Wrap(decorators, [wrapper |-> "command_args", path |-> path, func |-> f])]

\* StdCommandHandler(command=path, callback=...)
StdCommandHandler(path, callback) ==
    [kind |-> "command", command |-> path, callback |-> callback]

\* self._access_log_decorator(self._help_cb)
HelpCb == [wrapper |-> "access_log", inner |-> [wrapper |-> "help_cb"]]

NoCall == [op |-> "none"]

\* The paths commands are registered under.
RegPaths == {Path, <<"f", "o", "o">>}

\* What a parameter of a handler given to command() may declare.
RegKinds ==
    { [annotation |-> a, default |-> d] :
        a \in {"int", "bool", "str", "empty", "Exception", "Optional[int]"},
        d \in {Empty, IntV(7), BoolV(TRUE), StrV(<<"s">>)} }

\* The handlers given to command(): no parameter or one.
RegFuncs ==
    { [params |-> <<>>, doc |-> "help"] } \cup
    { [params |-> <<[name |-> ParamNames[1], annotation |-> k.annotation,
                     default |-> k.default]>>,
       doc |-> "help"] : k \in RegKinds }

\* ------------------------------------- specification of the registration
InitReg ==
    /\ params = <<>> /\ msg_args = <<>> /\ result = NotCalled
    /\ alert_to = <<>>
    /\ decorators \in DecoratorLists
    /\ func = [params |-> <<>>, doc |-> "help"]
    /\ event = NoEvent /\ pc = "idle" /\ level = 0 /\ exc = None
    /\ alert_i = 0 /\ trace = <<>>
    /\ paths = <<>> /\ handlers = <<>> /\ last_call = NoCall

\* command(path)(f): check the signature, then add the command to the
\* registry and its decorated callback to the dispatcher.
Command(path, f) ==
    /\ Len(paths) < MaxCommands
    /\ IF CheckArgs(f).ok
       THEN /\ paths' = Append(paths, [path |-> path, func |-> f])
            /\ handlers' = Append(handlers, StdCommandHandler(path, Decorate(path, f)))
            /\ last_call' = [op |-> "command", path |-> path, func |-> f,
                             raised |-> None]
       ELSE /\ UNCHANGED <<paths, handlers>>
            /\ last_call' = [op |-> "command", path |-> path, func |-> f,
                             raised |-> CheckArgs(f).exc]
    /\ UNCHANGED <<bindVars, botVars, runVars>>

\* register_help: the help and the start handler, with one callback.
RegisterHelp ==
    /\ Cardinality({i \in 1..Len(handlers) : handlers[i].kind = "help"}) < MaxHelp
    /\ handlers' = handlers \o << [kind |-> "help", callback |-> HelpCb],
                                   [kind |-> "start", callback |-> HelpCb] >>
    /\ last_call' = [op |-> "register_help"]
    /\ UNCHANGED <<paths, bindVars, botVars, runVars>>

NextReg ==
    \/ \E path \in RegPaths, f \in RegFuncs : Command(path, f)
    \/ RegisterHelp

SpecReg == InitReg /\ [][NextReg]_vars

\* ------------------------------------------- specification of the binder
InitBind ==
    /\ params \in Signatures
    /\ msg_args \in TokenLists
    /\ result = NotCalled
    /\ alert_to = <<>> /\ decorators = <<>>
    /\ func = [params |-> <<>>, doc |-> "help"]
    /\ event = NoEvent /\ pc = "idle" /\ level = 0 /\ exc = None
    /\ alert_i = 0 /\ trace = <<>>
    /\ paths = <<>> /\ handlers = <<>> /\ last_call = NoCall

GenKwargsCall ==
    /\ result = NotCalled
    /\ result' = GenKwargs(params, msg_args)
    /\ UNCHANGED <<params, msg_args, botVars, runVars, regVars>>

NextBind == GenKwargsCall

SpecBind == InitBind /\ [][NextBind]_vars

\* ---------------------------------- specification of the dispatch chain
Init ==
    /\ params = <<>> /\ msg_args = <<>> /\ result = NotCalled
    /\ alert_to \in AlertLists
    /\ decorators \in DecoratorLists
    /\ func \in Handlers
    /\ event = NoEvent /\ pc = "idle" /\ level = 0 /\ exc = None
    /\ alert_i = 0 /\ trace = <<>>
    /\ paths = <<[path |-> Path, func |-> func]>>
    /\ handlers = <<StdCommandHandler(Path, Decorate(Path, func))>>
    /\ last_call = [op |-> "command", path |-> Path, func |-> func, raised |-> None]

\* The callback the transport holds for the command.
Callback == handlers[1].callback

\* The wrappers of a callback around its innermost function, outermost first.
RECURSIVE Layers(_)
Layers(cb) ==
    IF cb.wrapper \in {"command_args", "help_cb"} THEN <<>>
    ELSE <<cb.wrapper>> \o Layers(cb.inner)

\* The integrator decorators a call goes through, in the order it enters them.
Chain == Tail(Layers(Callback))

\* The transport delivers an event to the callback that command() registered:
\* the one _access_log_decorator returns.
Receive(ev) ==
    /\ pc \in {"idle", "done", "raised"}
    /\ event' = ev
    /\ pc' = "access_log"
    /\ level' = 0 /\ exc' = None /\ alert_i' = 0 /\ trace' = <<>>
    /\ UNCHANGED <<bindVars, botVars, regVars>>

\* _access_log up to the call of handler(): the first access line.
AccessLogBefore ==
    /\ pc = "access_log"
    /\ Callback.wrapper = "access_log"
    /\ trace' = Append(trace, LogInfo(AccessMsg(event)))
    /\ pc' = IF Chain = <<>> THEN "command_args" ELSE "decorator"
    /\ UNCHANGED <<bindVars, botVars, regVars, event, level, exc, alert_i>>

\* The call enters the next wrapper of the callback _decorate built; a
\* decorator passes the call on to what it wraps.
DecoratorEnter ==
    /\ pc = "decorator"
    /\ trace' = Append(trace, Enter(Chain[level + 1]))
    /\ level' = level + 1
    /\ pc' = IF level + 1 = Len(Chain) THEN "command_args" ELSE "decorator"
    /\ UNCHANGED <<bindVars, botVars, regVars, event, exc, alert_i>>

\* A variant that raises the BadArg again after it was reported.
AfterBadArgReraise(e, ok) == IF ok THEN e ELSE During(TransportError, e)

\* _command_args, except BadArg: what leaves the wrapper after the send.
AfterBadArg(e, ok) == IF ok THEN None ELSE During(TransportError, e)

\* _command_args: bind, then report the BadArg, or call the handler and send
\* what it returns; on any exception send the generic text and raise again.
CommandArgs ==
    /\ pc = "command_args"
    /\ LET bound == GenKwargsFromMsg(func, event.text)
           chat == event.from_chat
       IN  \/ /\ ~bound.ok
              /\ \E ok \in BOOLEAN :
                    /\ trace' = Append(trace,
                            SendText(chat, BadArgText(bound.exc, Path, func), ok))
                    /\ exc' = AfterBadArg(bound.exc, ok)
           \/ /\ bound.ok
              /\ \E out \in HandlerOutcomes :
                    \/ /\ out.ok
                       /\ trace' = trace \o
                            << Call(bound.val, out),
                               SendText(chat, ReplyText(out.val), TRUE) >>
                       /\ exc' = None
                    \/ /\ out.ok
                       /\ \E ok \in BOOLEAN :
                            /\ trace' = trace \o
                                << Call(bound.val, out),
                                   SendText(chat, ReplyText(out.val), FALSE),
                                   SendText(chat, ErrorText(TransportError), ok) >>
                            /\ exc' = IF ok THEN TransportError
                                      ELSE During(TransportError, TransportError)
                    \/ /\ ~out.ok
                       /\ \E ok \in BOOLEAN :
                            /\ trace' = trace \o
                                << Call(bound.val, out),
                                   SendText(chat, ErrorText(out.exc), ok) >>
                            /\ exc' = IF ok THEN out.exc
                                      ELSE During(TransportError, out.exc)
    /\ pc' = IF level = 0 THEN "access_except" ELSE "decorator_exit"
    /\ UNCHANGED <<bindVars, botVars, regVars, event, level, alert_i>>

\* The call leaves a decorator, by return or with the exception in flight.
DecoratorExit ==
    /\ pc = "decorator_exit"
    /\ trace' = Append(trace, Exit(Chain[level]))
    /\ level' = level - 1
    /\ pc' = IF level = 1 THEN "access_except" ELSE "decorator_exit"
    /\ UNCHANGED <<bindVars, botVars, regVars, event, exc, alert_i>>

\* The subclasses of Exception among the exceptions raised.
ExceptionClasses == {"ValueError", "BadArg", "TransportError"}

\* A variant that catches BadArg only.
CatchesBadArgOnly(e) == e.type = "BadArg"

\* _access_log: except Exception
Catches(e) == e.type \in ExceptionClasses

\* _access_log, except Exception: log_error is _log_exception, which logs the
\* exception and enters _send_error_message.  Without an exception the call
\* goes on to the finally clause.
LogException ==
    /\ pc = "access_except"
    /\ exc # None
    /\ Catches(exc)
    /\ trace' = Append(trace, LogError(UserAndChat(event), exc))
    /\ alert_i' = 1
    /\ pc' = IF alert_to = <<>> THEN "access_finally" ELSE "send_error_message"
    /\ UNCHANGED <<bindVars, botVars, regVars, event, level, exc>>

\* A variant in which a failed alert ends the loop.
NextAlertStopOnFailure(i, ok) == IF ok THEN i + 1 ELSE Len(alert_to) + 1

\* _send_error_message: the loop goes on to the next recipient whether the
\* send raised or not.
NextAlert(i, ok) == i + 1

\* _send_error_message: one iteration of the loop over alert_to.
SendAlert ==
    /\ pc = "send_error_message"
    /\ \E ok \in BOOLEAN :
        /\ trace' = trace \o
              << SendText(alert_to[alert_i],
                     FormatErrorMessage(UserAndChat(event), FormatExc(exc)), ok) >>
              \o (IF ok THEN <<>> ELSE << LogExceptionLine(TransportError) >>)
        /\ alert_i' = NextAlert(alert_i, ok)
        /\ pc' = IF NextAlert(alert_i, ok) > Len(alert_to)
                 THEN "access_finally" ELSE "send_error_message"
    /\ UNCHANGED <<bindVars, botVars, regVars, event, level, exc>>

\* _access_log, finally: the second access line; the callback returns to the
\* transport when there was no exception or the except clause handled it,
\* and an exception the except clause does not catch goes on to the caller.
AccessLogAfter ==
    /\ \/ pc = "access_finally"
       \/ pc = "access_except" /\ (exc = None \/ ~Catches(exc))
    /\ trace' = Append(trace, LogInfo(AccessElapsedMsg(event)))
    /\ exc' = IF pc = "access_except" THEN exc ELSE None
    /\ pc' = IF pc = "access_except" /\ exc # None THEN "raised" ELSE "done"
    /\ UNCHANGED <<bindVars, botVars, regVars, event, level, alert_i>>

Next ==
    \/ \E ev \in Events : Receive(ev)
    \/ AccessLogBefore
    \/ DecoratorEnter
    \/ CommandArgs
    \/ DecoratorExit
    \/ LogException
    \/ SendAlert
    \/ AccessLogAfter

Spec == Init /\ [][Next]_vars

\* ------------------------------------------------- claims on the binder
Called == result # NotCalled

IsNamed(tok) == \E k \in 1..Len(tok) : tok[k] = "="
KeyOf(tok) == SplitEq(tok)[1]
ValueOf(tok) == SplitEq(tok)[2]

\* The positions of the named tokens whose key is the name of parameter i.
NamedFor(ps, args, i) ==
    {j \in 1..Len(args) : IsNamed(args[j]) /\ KeyOf(args[j]) = ps[i].name}

PosTokens(args) == SelectSeq(args, LAMBDA t : ~IsNamed(t))

Max(S) == CHOOSE x \in S : \A y \in S : y <= x

\* The value the binding rule gives parameter i: the named token (the last
\* one when the key is repeated), else the i-th positional token, else the
\* default.
Expected(ps, args, i) ==
    IF NamedFor(ps, args, i) # {}
    THEN CastArg(ps[i], ValueOf(args[Max(NamedFor(ps, args, i))])).val
    ELSE IF i <= Len(PosTokens(args))
    THEN CastArg(ps[i], PosTokens(args)[i]).val
    ELSE ps[i].default

\* C1: in every successful binding each parameter holds the cast value of
\* the named token with its name if there is one, otherwise the cast value
\* of the positional token at its declaration position if there is one,
\* otherwise its default; a named token overrides a positional one.
C1_BindingRule ==
    (Called /\ result.ok) =>
        \A i \in 1..Len(params) :
            result.val[params[i].name] = Expected(params, msg_args, i)

\* A successful binding where a named token overrode the positional token
\* of the same parameter and changed its value.
C1_Witness ==
    /\ Called /\ result.ok
    /\ \E i \in 1..Len(params) :
        /\ i <= Len(PosTokens(msg_args))
        /\ NamedFor(params, msg_args, i) # {}
        /\ CastArg(params[i], PosTokens(msg_args)[i]).ok
        /\ result.val[params[i].name] # CastArg(params[i], PosTokens(msg_args)[i]).val

HasPosAfterNamed(args) ==
    \E i, j \in 1..Len(args) : i < j /\ IsNamed(args[i]) /\ ~IsNamed(args[j])

OrderingError ==
    Raise(BadArg("you can't use positional arguments after key-value arguments", <<>>))

\* C2: a token list with a positional token after a named one fails with
\* the ordering BadArg and yields no binding, whatever the other tokens.
C2_OrderingRule ==
    (Called /\ HasPosAfterNamed(msg_args)) => result = OrderingError

\* The ordering error on a list that also names an unknown parameter or
\* holds a named value its parameter cannot be cast from.
C2_Witness ==
    /\ Called /\ HasPosAfterNamed(msg_args) /\ result = OrderingError
    /\ \E j \in 1..Len(msg_args) :
        /\ IsNamed(msg_args[j])
        /\ \/ KeyOf(msg_args[j]) \notin Names(params)
           \/ ~CastArg(ParamByName(params, KeyOf(msg_args[j])), ValueOf(msg_args[j])).ok

\* The parameters with no default, no positional token and no named token.
Unsupplied(ps, args) ==
    {i \in 1..Len(ps) :
        /\ ps[i].default = Empty
        /\ i > Len(PosTokens(args))
        /\ NamedFor(ps, args, i) = {}}

NoValueError(name) == Raise(BadArg("no value for arg", name))

\* C3 as stated: a returned map has exactly the declared names as keys, and
\* a parameter without default and token makes the call fail with
\* 'no value for arg <name>'.
C3_AsStated ==
    Called =>
        /\ result.ok => DOMAIN result.val = Names(params)
        /\ Unsupplied(params, msg_args) # {} =>
            \E i \in Unsupplied(params, msg_args) :
                result = NoValueError(params[i].name)

\* The checks that run before the final loop all pass.
EarlierChecksPass(ps, args) ==
    /\ ~HasPosAfterNamed(args)
    /\ \A j \in 1..Len(args) :
        IsNamed(args[j]) =>
            /\ KeyOf(args[j]) \in Names(ps)
            /\ CastArg(ParamByName(ps, KeyOf(args[j])), ValueOf(args[j])).ok
    /\ \A i \in 1..Len(ps) :
        i <= Len(PosTokens(args)) => CastArg(ps[i], PosTokens(args)[i]).ok

\* C3, amended: a returned map has exactly the declared names as keys; a
\* parameter without default and token makes the call fail with a BadArg,
\* which is 'no value for arg <name>' for the first such parameter unless
\* the ordering check, an unknown name or a failed cast ended the call first.
C3_NoPartialBinding ==
    Called =>
        /\ result.ok => DOMAIN result.val = Names(params)
        /\ Unsupplied(params, msg_args) # {} =>
            /\ ~result.ok /\ result.exc.type = "BadArg"
            /\ EarlierChecksPass(params, msg_args) =>
                result = NoValueError(
                    params[CHOOSE i \in Unsupplied(params, msg_args) :
                        \A j \in Unsupplied(params, msg_args) : i <= j].name)

\* A parameter lacks a value, every earlier check passes on a non-empty
\* token list, and the call fails with the missing-value BadArg.
C3_Witness ==
    /\ Called
    /\ Cardinality(Unsupplied(params, msg_args)) >= 1
    /\ Len(msg_args) >= 1
    /\ EarlierChecksPass(params, msg_args)
    /\ ~result.ok /\ result.exc.msg = "no value for arg"

\* C4: more positional tokens than declared parameters is a BadArg.
C4_TooManyPositionalFails ==
    (Called /\ Len(PosTokens(msg_args)) > Len(params)) => ~result.ok

AllNamedDistinct(args) ==
    /\ \A j \in 1..Len(args) : IsNamed(args[j])
    /\ \A i, j \in 1..Len(args) : i # j => KeyOf(args[i]) # KeyOf(args[j])

IndexPermutations(n) ==
    {f \in [1..n -> 1..n] : \A i, j \in 1..n : i # j => f[i] # f[j]}

\* C5: a successfully bound list of named tokens with pairwise distinct
\* keys binds to the same map in every order of its tokens.
C5_NamedOrderIndependent ==
    (Called /\ result.ok /\ AllNamedDistinct(msg_args)) =>
        \A f \in IndexPermutations(Len(msg_args)) :
            GenKwargs(params, [i \in 1..Len(msg_args) |-> msg_args[f[i]]]) = result

\* A successful binding of at least two named tokens with distinct keys.
C5_Witness ==
    /\ Called /\ result.ok /\ AllNamedDistinct(msg_args)
    /\ Len(msg_args) >= 2

\* ----------------------------------------- claims on the dispatch chain
Range(q) == {q[i] : i \in 1..Len(q)}

Sends == SelectSeq(trace, LAMBDA x : x.op = "send")
Calls == SelectSeq(trace, LAMBDA x : x.op = "call")
Infos == SelectSeq(trace, LAMBDA x : x.op = "info")
Errors == SelectSeq(trace, LAMBDA x : x.op = "error")

IsAlert(x) == x.op = "send" /\ x.text.fmt = "ERROR: user={user}\n\n{message}"
IsGeneric(x) == x.op = "send" /\ x.text = [fmt |-> "some error occurred"]
Alerts == SelectSeq(trace, IsAlert)
Replies == SelectSeq(trace, LAMBDA x : x.op = "send" /\ ~IsAlert(x))

\* The binding of the event being dispatched.
Bound == GenKwargsFromMsg(func, event.text)

\* _command_args has run for the event.
Handled == pc \in {"decorator_exit", "access_except", "send_error_message",
                   "access_finally", "done"}

BindFailed == Handled /\ ~Bound.ok
Returned == Handled /\ Len(Calls) = 1 /\ Calls[1].out.ok
Failed == Handled /\ Len(Calls) = 1 /\ ~Calls[1].out.ok

\* C6 as stated: when binding fails with BadArg the error text and the help
\* block go to the originating chat, the handler is not invoked and no alert
\* is attempted for the event.
C6_AsStated ==
    BindFailed =>
        /\ Len(Replies) = 1
        /\ Replies[1].chat_id = event.from_chat
        /\ Replies[1].text = BadArgText(Bound.exc, Path, func)
        /\ Calls = <<>>
        /\ Alerts = <<>>

\* C6, amended: when binding fails with BadArg the only message the wrapper
\* sends is the error text with the help block, to the originating chat, and
\* the handler is not invoked; alerts are attempted only when that send
\* itself fails, and then one per recipient.
C6_BadArgRecovered ==
    BindFailed =>
        /\ Len(Replies) = 1
        /\ Replies[1].chat_id = event.from_chat
        /\ Replies[1].text = BadArgText(Bound.exc, Path, func)
        /\ Calls = <<>>
        /\ Replies[1].ok => Alerts = <<>> /\ Errors = <<>>
        /\ (~Replies[1].ok /\ pc = "done") =>
                [i \in 1..Len(Alerts) |-> Alerts[i].chat_id] = alert_to

\* A BadArg reported to the chat of a bot that has alert recipients, the
\* event fully handled.
C6_Witness ==
    /\ BindFailed /\ pc = "done"
    /\ alert_to # <<>>
    /\ Replies[1].ok
    /\ Bound.exc.type = "BadArg"

\* C7 as stated: when binding succeeds and the handler returns s, the handler
\* was invoked once with the bound arguments and exactly one message went to
\* the originating chat, with text s.
C7_AsStated ==
    Returned =>
        /\ Calls[1].kwargs = Bound.val
        /\ LET toChat == SelectSeq(Sends, LAMBDA x : x.chat_id = event.from_chat)
           IN  /\ Len(toChat) = 1
               /\ toChat[1].text = [fmt |-> "{}", s |-> Calls[1].out.val]

\* C7, amended: when binding succeeds and the handler returns s, the handler
\* was invoked once with the bound arguments and the first message sent to
\* the originating chat has text s; it is the only message of the event when
\* its delivery succeeds, and when it fails the generic error text is sent
\* to the chat after it and the failure goes the way of a handler failure.
C7_ReplyVerbatim ==
    Returned =>
        /\ Calls[1].kwargs = Bound.val
        /\ Len(Sends) >= 1
        /\ Sends[1].chat_id = event.from_chat
        /\ Sends[1].text = [fmt |-> "{}", s |-> Calls[1].out.val]
        /\ Sends[1].ok => Len(Sends) = 1 /\ Errors = <<>>
        /\ ~Sends[1].ok =>
                /\ Len(Replies) = 2
                /\ Replies[2].chat_id = event.from_chat /\ IsGeneric(Replies[2])
                /\ pc = "done" => Len(Errors) = 1

\* A handler with a parameter bound from the message returned a string that
\* was delivered, the event fully handled.
C7_Witness ==
    /\ Returned /\ pc = "done"
    /\ Calls[1].kwargs # <<>>
    /\ Sends[1].ok
    /\ alert_to # <<>>

\* C8 as stated: after a failure in the handler body every text sent to the
\* originating chat for the event is the generic message, whatever the alert
\* recipients.
C8_AsStated ==
    Failed =>
        \A i \in 1..Len(Sends) :
            Sends[i].chat_id = event.from_chat => IsGeneric(Sends[i])

\* C8, amended: after a failure in the handler body the wrapper's answer to
\* the originating chat is the generic message, the same for every failure,
\* and it is the only text the chat receives unless the chat is itself one
\* of the alert recipients (it then also receives the alert with the trace).
C8_GenericAnswer ==
    Failed =>
        /\ Len(Replies) = 1
        /\ Replies[1].chat_id = event.from_chat
        /\ IsGeneric(Replies[1])
        /\ event.from_chat \notin Range(alert_to) =>
                \A i \in 1..Len(Sends) :
                    Sends[i].chat_id = event.from_chat => IsGeneric(Sends[i])

\* A handler failure answered to a chat that is not an alert recipient of a
\* bot that has alert recipients, the event fully handled.
C8_Witness ==
    /\ Failed /\ pc = "done"
    /\ alert_to # <<>>
    /\ event.from_chat \notin Range(alert_to)
    /\ Calls[1].out.exc.type = "ValueError"
    /\ Len(Alerts) >= 1

\* The positions of the trace that hold a send matching P.
TraceIdx(P(_)) == {i \in 1..Len(trace) : P(trace[i])}

\* C9: after a failure in the handler body one alert is attempted per entry
\* of alert_to, in list order, whether earlier alerts were delivered or not;
\* the generic answer to the originating chat was sent before the first
\* alert and no alert changes it.
C9_AlertPerRecipient ==
    Failed =>
        /\ Len(Alerts) <= Len(alert_to)
        /\ \A i \in 1..Len(Alerts) :
            /\ Alerts[i].chat_id = alert_to[i]
            /\ Alerts[i].text =
                 FormatErrorMessage(UserAndChat(event), FormatExc(Errors[1].e))
        /\ pc \in {"access_finally", "done"} => Len(Alerts) = Len(alert_to)
        /\ Len(Replies) = 1 /\ IsGeneric(Replies[1])
        /\ \A i \in TraceIdx(IsAlert) :
                \E j \in 1..(i - 1) :
                    IsGeneric(trace[j]) /\ trace[j].chat_id = event.from_chat

\* Two alert recipients, the first alert not delivered, the second attempted.
C9_Witness ==
    /\ Failed /\ pc = "done"
    /\ Len(alert_to) >= 2
    /\ Len(Alerts) = Len(alert_to)
    /\ ~Alerts[1].ok

\* The first whitespace-delimited token of a text, <<>> when it has none.
FirstToken(text) ==
    LET starts == {i \in 1..Len(text) : text[i] # " "}
    IN  IF starts = {} THEN <<>>
        ELSE LET b == CHOOSE i \in starts : \A j \in starts : i <= j
                 ends == {i \in b..Len(text) : i = Len(text) \/ text[i + 1] = " "}
                 e == CHOOSE i \in ends : \A j \in ends : i <= j
             IN  SubSeq(text, b, e)

ExpectedPath(text) ==
    IF FirstToken(text) # <<>> /\ Head(FirstToken(text)) = "/"
    THEN FirstToken(text) ELSE <<"{not a path}">>

\* The wrapped callback raised: the handler did, or a send of the wrapper.
CallbackRaised ==
    \/ \E i \in 1..Len(Calls) : ~Calls[i].out.ok
    \/ \E i \in 1..Len(Replies) : ~Replies[i].ok

\* C10: for an event gone through the access-log wrapper the first effect is
\* the access line and the last the access line with the elapsed time, both
\* with the event's user and chat and with its path (the first token when it
\* starts with '/', the placeholder otherwise), and there is no other access
\* line; when the wrapped callback raised, the error logger was called once,
\* with the exception, before the last line, and otherwise not at all.
C10_AccessLog ==
    /\ (event # NoEvent /\ pc # "access_log") =>
        /\ Len(trace) >= 1
        /\ trace[1] = LogInfo([fmt |-> "[ACCESS] {user_and_chat} {path}",
                               user_and_chat |-> UserAndChat(event),
                               path |-> ExpectedPath(event.text)])
        /\ pc # "done" => Len(Infos) = 1
    /\ pc = "done" =>
        /\ Len(Infos) = 2
        /\ trace[Len(trace)] =
             LogInfo([fmt |-> "{access_msg} elapsed={:.3f}s",
                      access_msg |-> trace[1].line])
        /\ Len(Errors) = (IF CallbackRaised THEN 1 ELSE 0)
        /\ Failed /\ Replies[1].ok =>
                Errors[1] = LogError(UserAndChat(event), Calls[1].out.exc)

\* An event whose text does not start with '/' and whose handler raised,
\* fully handled: both access lines carry the placeholder.
C10_Witness ==
    /\ pc = "done"
    /\ Failed
    /\ event.text # <<>> /\ Head(event.text) # "/"
    /\ trace[1].line.path = <<"{not a path}">>
    /\ Len(Errors) = 1

\* ------------------------------------------- claims on the registration
UnsupportedType(p) == p.annotation \notin {"int", "bool", "str", "empty"}

DefaultMismatch(p) ==
    /\ ~UnsupportedType(p)
    /\ p.default # Empty
    /\ ~IsInstance(p.default, IF p.annotation = "empty" THEN "str" ELSE p.annotation)

\* A parameter declares an unsupported type or a default that is no
\* instance of its declared (or inferred string) type.
BadSignature(f) ==
    \E i \in 1..Len(f.params) :
        UnsupportedType(f.params[i]) \/ DefaultMismatch(f.params[i])

\* C11: registering a handler with an unsupported parameter type or with a
\* default that is no instance of the declared type fails with
\* ImproperlyConfigured and leaves the registry and the dispatcher's handler
\* list as they were.
C11_BadSignatureRejected ==
    [][ (last_call'.op = "command" /\ BadSignature(last_call'.func)) =>
            /\ last_call'.raised.type = "ImproperlyConfigured"
            /\ paths' = paths
            /\ handlers' = handlers ]_vars

\* C11, the part that holds: such a registration raises and leaves the
\* registry and the dispatcher's handler list as they were.
C11_BotUnchanged ==
    [][ (last_call'.op = "command" /\ BadSignature(last_call'.func)) =>
            /\ last_call'.raised # None
            /\ paths' = paths
            /\ handlers' = handlers ]_vars

PathsOf(reg) == [i \in 1..Len(reg) |-> reg[i].path]

UniquePaths(reg) ==
    \A i, j \in 1..Len(reg) : reg[i].path = reg[j].path => i = j

IsPrefix(s, t) == Len(s) <= Len(t) /\ SubSeq(t, 1, Len(s)) = s

CommandHandlers(hs) == SelectSeq(hs, LAMBDA h : h.kind = "command")

\* C12: after any sequence of registrations each command path maps to
\* exactly one handler: the registry never holds two entries with the same
\* path, and an entry once added is never removed or replaced.
C12_OnePathOneHandler ==
    [][ /\ UniquePaths(paths')
        /\ IsPrefix(paths, paths') ]_vars

\* C12, the part that holds: the registry and the dispatcher's handler list
\* only grow at the end, and the dispatcher holds one command handler per
\* registry entry, in the same order.
C12_AppendOnly ==
    [][ /\ IsPrefix(paths, paths')
        /\ IsPrefix(handlers, handlers')
        /\ [i \in 1..Len(CommandHandlers(handlers')) |->
                CommandHandlers(handlers')[i].command] = PathsOf(paths') ]_vars

\* ----------------------------------------- claims on the callback chain
\* The k-th wrapper of a callback, counted inwards from the outermost (0).
RECURSIVE Inner(_, _)
Inner(cb, k) == IF k = 0 THEN cb ELSE Inner(cb.inner, k - 1)

Enters == SelectSeq(trace, LAMBDA x : x.op = "dec_enter")
Exits == SelectSeq(trace, LAMBDA x : x.op = "dec_exit")

\* The effects of the binder and the handler: the handler call and what
\* _command_args sends to the chat.
IsBindAndInvoke(x) == x.op = "call" \/ (x.op = "send" /\ ~IsAlert(x))

\* C13: with decorators [d1, ..., dn] the callback given to the transport is
\* access-log(dn(...d1(bind-and-invoke)...)); on every event the first
\* access line is logged before any decorator runs, the decorators are
\* entered in the order dn, ..., d1, the binder and the handler run only
\* inside all of them, and the final access line is logged after all of
\* them have exited.
C13_DecoratorOrder ==
    LET n == Len(decorators)
        entered == [k \in 1..n |-> Enter(decorators[n - k + 1])]
        exited == [k \in 1..n |-> Exit(decorators[k])]
    IN  /\ Callback.wrapper = "access_log"
        /\ \A k \in 1..n : Inner(Callback, k).wrapper = decorators[n - k + 1]
        /\ Inner(Callback, n + 1).wrapper = "command_args"
        /\ pc = "command_args" => Enters = entered /\ Exits = <<>>
        /\ \A i \in 1..Len(trace) :
                /\ trace[i].op = "dec_enter" =>
                        /\ trace[1] = LogInfo(AccessMsg(event))
                        /\ i \in 2..(n + 1)
                        /\ trace[i] = entered[i - 1]
                /\ IsBindAndInvoke(trace[i]) =>
                        /\ \A k \in 1..n : trace[1 + k] = entered[k]
                        /\ \A j \in 1..i : trace[j].op # "dec_exit"
        /\ pc = "done" =>
                /\ Enters = entered
                /\ Exits = exited
                /\ trace[Len(trace)] = LogInfo(AccessElapsedMsg(event))
                /\ \A i \in 1..(Len(trace) - 1) :
                        trace[i] # LogInfo(AccessElapsedMsg(event))

C13_Witness ==
    /\ pc = "done"
    /\ Len(decorators) = 2
    /\ decorators[1] # decorators[2]
    /\ Len(Calls) = 1
    /\ Len(Exits) = 2

\* The callback is not stuck: where the event stands, the step of the
\* callback that comes next can be taken.
CanProceed ==
    /\ pc \in {"idle", "access_log", "decorator", "command_args",
               "decorator_exit", "access_except", "send_error_message",
               "access_finally", "done", "raised"}
    /\ pc = "access_log" => Callback.wrapper = "access_log"
    /\ pc = "decorator" => level + 1 \in 1..Len(Chain)
    /\ pc = "decorator_exit" => level \in 1..Len(Chain)
    /\ pc = "send_error_message" => alert_i \in 1..Len(alert_to)

\* What leaves _command_args after the generic message: the handler's
\* failure, or the transport's raised while that failure was handled.
Reraised(sent) ==
    IF sent.ok THEN Calls[1].out.exc
    ELSE During(TransportError, Calls[1].out.exc)

\* C14: an unexpected handler failure is raised again by the bind-and-invoke
\* wrapper after the generic message is sent, passes through the integrator
\* decorators and is caught by the access-log wrapper; for every handler
\* outcome and every failure of send_text, to the chat or to an alert
\* recipient, the callback registered with the transport returns normally.
C14_FailureContained ==
    /\ pc # "raised"
    /\ pc = "done" => exc = None
    /\ CanProceed
    /\ Failed =>
        LET c == CHOOSE i \in 1..Len(trace) : trace[i].op = "call"
        IN  /\ IsGeneric(trace[c + 1])
            /\ trace[c + 1].chat_id = event.from_chat
            /\ pc \in {"decorator_exit", "access_except"} =>
                    /\ exc = Reraised(trace[c + 1])
                    /\ Errors = <<>>
            /\ \A i \in 1..Len(trace) : trace[i].op = "error" =>
                    /\ trace[i] = LogError(UserAndChat(event), Reraised(trace[c + 1]))
                    /\ i = c + 2 + Len(decorators)
                    /\ \A k \in 1..Len(decorators) :
                            trace[c + 1 + k] = Exit(decorators[k])
            /\ pc \in {"send_error_message", "access_finally", "done"} =>
                    Len(Errors) = 1

C14_Witness ==
    /\ pc = "done"
    /\ Failed
    /\ Len(decorators) = 2
    /\ \E i \in 1..Len(trace) : IsGeneric(trace[i]) /\ ~trace[i].ok
    /\ \E i \in 1..Len(trace) : IsAlert(trace[i]) /\ ~trace[i].ok

====
